---------------------------- MODULE Spec2Model ----------------------------
(***************************************************************************)
(* Model of AsyncMongoDB (src/mongo.py) and AsyncRedisDB (src/redis.py).   *)
(*                                                                         *)
(* A collection is a function from identity slots 0..K to a document or    *)
(* Absent (the _id index, unique and ordered).  A document is a function   *)
(* from field names to values; a stored document always has "_id".         *)
(***************************************************************************)
EXTENDS Integers, Sequences, FiniteSets, TLC

\* ------------------------------------------------------------------ bounds
MaxDocs == 101      \* largest source collection of the getter specification
MaxSmall == 3       \* small collections are 0..MaxSmall documents
MaxPage == 2        \* page sizes 1..MaxPage
MaxTarget == 52     \* explicit return_cnt 1..MaxTarget
MaxChurn == 1       \* inserts and deletes by other clients during one traversal
MaxYield == 6       \* pages followed in a traversal that other clients disturb
MaxId == 1          \* documents passed to write carry an _id in 0..MaxId, or none
MaxBatch == 2       \* documents in one write call
MaxMember == 2      \* sorted-set members 1..MaxMember
MaxScore == 3       \* scores and interval ends 1..MaxScore

\* ------------------------------------------------------ program constants
CacheFactor == 50       \* page_size*50, mongo.py line 216
CopyPageSize == 5000    \* getter(old_name, page_size=5000), mongo.py line 278
None == -1              \* Python None (item.get('_id') of a document without _id)
Unbound == -2           \* a local variable that was never assigned (page_id)
All == -3               \* return_cnt = 'all', mongo.py line 189
EmptyString == -4       \* num = '', redis.py line 79
NoClient == 0           \* no script is running on the Redis server

Absent == <<>>          \* an identity slot that holds no document

VARIABLES
  coll,        \* the collection read by getter (source of copy_collection)
  dest,        \* the collection written by write (destination of copy_collection)
  pc,          \* position of the getter coroutine
  filter,      \* getter argument
  arg_cnt,     \* getter argument return_cnt as passed: All or a number
  page_size,   \* getter argument
  log_switch,  \* getter argument
  total_cnt,   \* line 208
  return_cnt,  \* line 212
  fetch_cnt,   \* line 214
  item_list,   \* line 214: the page buffer
  filters,     \* line 214 / 243: [gt |-> lower bound or None, flt |-> filter]
  cache_size,  \* line 216 / 221
  page_id,     \* line 230
  cursor,      \* line 223: [after, left] of the open server cursor
  pages,       \* history: the pages yielded so far, in order
  start_ids,   \* history: identities matching the filter when getter was called
  exact_cnt,   \* history: total_cnt was the true number of matching documents
  churn,       \* history: inserts and deletes by other clients so far
  low_insert,  \* history: another client inserted at or below the traversal's position
  consumer,    \* who iterates the generator: "collect" (a caller) or "copy"
  dest0,       \* history: the destination before copy_collection / before write
  w_docs,      \* the documents list passed to write
  w_calls,     \* how many times write(w_docs) has run
  w_after,     \* history: the collection after the first write(w_docs)
  w_result,    \* the last write / delete call: [op, ok (the returned bool), sent]
  refused,     \* identities on which the server answers an operation with a write error
  zset,        \* the sorted set at the key: member -> score
  running,     \* the client whose script the Redis server is executing, or NoClient
  r_pc,        \* per client: "idle", "script", "done"
  r_args,      \* per client: [op, min, max, num] and increment or score
  r_datas,     \* per client: the script's local datas (members, in range order)
  r_items,     \* per client: the script's local item_list
  r_before,    \* history, per client: the sorted set when its script started
  r_after,     \* history, per client: the sorted set when its script returned
  z_init       \* history: the sorted set before any call

getterVars == <<pc, filter, arg_cnt, page_size, log_switch, total_cnt, return_cnt,
                fetch_cnt, item_list, filters, cache_size, page_id, cursor, pages,
                start_ids, exact_cnt>>
writeVars == <<w_docs, w_calls, w_after, w_result>>
redisVars == <<zset, running, r_pc, r_args, r_datas, r_items, r_before, r_after, z_init>>
otherVars == <<churn, low_insert, consumer, dest0, refused, writeVars, redisVars>>
vars == <<coll, dest, otherVars, getterVars>>

\* ------------------------------------------------------------ collections
Slots(c) == DOMAIN c
Ids(c) == {i \in DOMAIN c : c[i] # Absent}
EmptyColl(k) == [i \in 0..k |-> Absent]
Min(a, b) == IF a < b THEN a ELSE b

\* dict.get(key): the value, or None
Get(d, k) == IF k \in DOMAIN d THEN d[k] ELSE None

\* A query such as {} or {'f': 1}: every key of the query equals the document's.
Matches(d, flt) == \A k \in DOMAIN flt : k \in DOMAIN d /\ d[k] = flt[k]

\* A faulty variant of MatchesFilters: the lower bound taken as '$gte'.
MatchesFiltersGte(d, fs) ==
  /\ Matches(d, fs.flt)
  /\ fs.gt # None => d["_id"] >= fs.gt

\* {'$and': [{'_id': {'$gt': page_id}}, filter]}, or the plain filter (gt = None)
MatchesFilters(d, fs) ==
  /\ Matches(d, fs.flt)
  /\ fs.gt # None => d["_id"] > fs.gt

\* count_documents(filter)
CountDocuments(c, flt) == Cardinality({i \in Ids(c) : Matches(c[i], flt)})

\* estimated_document_count(): the collection's metadata count
EstimatedDocumentCount(c) == Cardinality(Ids(c))

\* get_count, line 124-127
get_count(c, flt) ==
  IF DOMAIN flt # {} THEN CountDocuments(c, flt) ELSE EstimatedDocumentCount(c)

\* The slots of c in ascending order: the order of a find sorted by _id.
SlotSeq(c) == [i \in 1..Cardinality(DOMAIN c) |-> i - 1]

\* find(filters).sort('_id', ASCENDING): the documents a cursor positioned after
\* identity `after` still has to return, read from the collection as it is now.
FindSorted(c, fs, after) ==
  LET hit(i) == /\ c[i] # Absent
                /\ MatchesFilters(c[i], fs)
                /\ after # None => i > after
      ids == SelectSeq(SlotSeq(c), hit)
  IN  [k \in 1..Len(ids) |-> c[ids[k]]]

\* ------------------------------------------------------------------ getter
\* line 212
ResolveReturnCnt(arg, total) ==
  IF arg = All \/ (0 > arg /\ arg > total) THEN total ELSE arg

\* line 216, sort_query = True
InitialCacheSize(ret, ps) ==
  IF ret < ps * CacheFactor THEN ret ELSE ps * CacheFactor

\* line 220-221
LoopCacheSize(fetched, ps, ret, cache) ==
  IF fetched + ps > ret THEN ret - fetched ELSE cache

\* cursor.limit(n): 0 means no limit
Limited(n) == n # 0

\* A faulty variant of ConsumeItem: the buffer not emptied after a full page
\* (line 233 left out).
ConsumeItemKeep(st, item, ps) ==
  LET items == Append(st.items, item)
  IN  IF Len(items) = ps
      THEN [items |-> items, fetched |-> st.fetched + 1,
            pid |-> items[Len(items)]["_id"], out |-> Append(st.out, items)]
      ELSE [st EXCEPT !.items = items, !.fetched = st.fetched + 1]

\* line 227-233 for one item; st = [items, fetched, pid, out]
ConsumeItem(st, item, ps) ==
  LET items == Append(st.items, item)
  IN  IF Len(items) = ps
      THEN [items |-> <<>>, fetched |-> st.fetched + 1,
            pid |-> items[Len(items)]["_id"], out |-> Append(st.out, items)]
      ELSE [st EXCEPT !.items = items, !.fetched = st.fetched + 1]

\* line 226-233 for the items lo..hi of one batch, in order: the first half,
\* then the second half from the state the first half leaves (the test on
\* `first` has the first half evaluated before the second starts)
RECURSIVE ConsumeItems(_, _, _, _, _)
ConsumeItems(st, batch, lo, hi, ps) ==
  IF lo > hi THEN st
  ELSE IF lo = hi THEN ConsumeItem(st, batch[lo], ps)
  ELSE LET first == ConsumeItems(st, batch, lo, (lo + hi) \div 2, ps)
       IN  IF first.fetched >= st.fetched
           THEN ConsumeItems(first, batch, (lo + hi) \div 2 + 1, hi, ps)
           ELSE first

\* ------------------------------------------------------------------- write
\* A faulty variant of SetFields: the matched document replaced by the item.
ReplaceFields(old, item) == item

\* {'$set': item} on a matched document: the item's fields are set, the others kept
SetFields(old, item) ==
  [k \in DOMAIN old \cup DOMAIN item |-> IF k \in DOMAIN item THEN item[k] ELSE old[k]]

\* A faulty variant of UpdateOne: upsert=False, an unmatched item is dropped.
UpdateOneNoUpsert(c, item) ==
  LET x == item["_id"]
  IN  [c EXCEPT ![x] = IF c[x] = Absent THEN Absent ELSE SetFields(c[x], item)]

\* A faulty variant of UpdateOne: '$inc' where the code has '$set', every
\* field but _id added to the stored value.
UpdateOneInc(c, item) ==
  LET x == item["_id"]
      old == c[x]
  IN  [c EXCEPT ![x] =
         IF old = Absent THEN item
         ELSE [k \in DOMAIN old \cup DOMAIN item |->
                 IF k \notin DOMAIN item THEN old[k]
                 ELSE IF k = "_id" \/ k \notin DOMAIN old THEN item[k]
                 ELSE old[k] + item[k]]]

\* UpdateOne({'_id': item['_id']}, {'$set': item}, upsert=True), line 149
UpdateOne(c, item) ==
  LET x == item["_id"]
  IN  [c EXCEPT ![x] = IF c[x] = Absent THEN item ELSE SetFields(c[x], item)]

\* InsertOne(item), line 149, of an item that has its _id: a second document
\* with the same _id is refused (duplicate key) and the collection stays as it is
InsertOne(c, item) ==
  LET x == item["_id"]
  IN  IF c[x] = Absent THEN [c EXCEPT ![x] = item] ELSE c

\* line 149: the operation built for one document
Operation(item) ==
  IF Get(item, "_id") # None THEN [op |-> "UpdateOne", item |-> item]
  ELSE [op |-> "InsertOne", item |-> item]

\* The slots that stand for ObjectIds: they sort after every other identity.
ObjectIdSlots(c) == {i \in Slots(c) : i > MaxId}

\* The k-th ObjectId generated from now on: new, and after every one in use.
NewObjectId(c, k) ==
  LET free == {i \in ObjectIdSlots(c) : \A j \in ObjectIdSlots(c) : j >= i => c[j] = Absent}
  IN  CHOOSE i \in free : Cardinality({j \in free : j < i}) = k - 1

\* bulk_write gives every InsertOne document that has no _id a new ObjectId,
\* in the caller's own dict, before the batch is sent (line 153).
WithObjectIds(c, ops) ==
  [k \in 1..Len(ops) |->
     IF ops[k].op = "InsertOne" /\ "_id" \notin DOMAIN ops[k].item
     THEN LET nth == Cardinality({j \in 1..k : ops[j].op = "InsertOne"
                                                /\ "_id" \notin DOMAIN ops[j].item})
              item == ops[k].item
          IN  [op |-> "InsertOne",
               item |-> [f \in DOMAIN item \cup {"_id"} |->
                           IF f = "_id" THEN NewObjectId(c, nth) ELSE item[f]]]
     ELSE ops[k]]

\* DeleteOne({'_id': i['_id']}), line 173
DeleteOne(c, item) == [c EXCEPT ![item["_id"]] = Absent]

\* The server answers the operation with a write error and leaves the collection
\* as it is.
Refused(o) == o.item["_id"] \in refused

ApplyOperation(c, o) ==
  IF Refused(o) THEN c
  ELSE IF o.op = "UpdateOne" THEN UpdateOne(c, o.item)
  ELSE IF o.op = "InsertOne" THEN InsertOne(c, o.item)
  ELSE DeleteOne(c, o.item)

\* A faulty variant of bulk_write: ordered=True, the batch stops at the first
\* operation the server refuses.
RECURSIVE bulk_write_ordered(_, _, _, _)
bulk_write_ordered(c, ops, lo, hi) ==
  IF lo > hi \/ Refused(ops[lo]) THEN c
  ELSE bulk_write_ordered(ApplyOperation(c, ops[lo]), ops, lo + 1, hi)

\* bulk_write(operate_list, ordered=False), line 153: the operations lo..hi of
\* one batch; the server applies the operations of one batch in list order (the
\* first half, then the second half on the collection the first half leaves).
RECURSIVE bulk_write(_, _, _, _)
bulk_write(c, ops, lo, hi) ==
  IF lo > hi THEN c
  ELSE IF lo = hi THEN ApplyOperation(c, ops[lo])
  ELSE LET first == bulk_write(c, ops, lo, (lo + hi) \div 2)
       IN  IF DOMAIN first = DOMAIN c
           THEN bulk_write(first, ops, (lo + hi) \div 2 + 1, hi)
           ELSE first

\* line 149
operate_list(documents) == [k \in 1..Len(documents) |-> Operation(documents[k])]

\* write(coll_name, documents), line 131-158: the collection afterwards
write(c, documents) ==
  IF documents = <<>> THEN c
  ELSE bulk_write(c, WithObjectIds(c, operate_list(documents)), 1, Len(documents))

\* bulk_write raises BulkWriteError when the server reported a write error for
\* some operation of the batch, after the whole batch was sent (line 153, 181)
BulkWriteError(ops) == \E k \in 1..Len(ops) : Refused(ops[k])

\* what write returns, line 144-158
write_result(c, documents) ==
  IF documents = <<>> THEN [op |-> "write", ok |-> TRUE, sent |-> 0]
  ELSE [op |-> "write",
        ok |-> ~BulkWriteError(WithObjectIds(c, operate_list(documents))),
        sent |-> Len(documents)]

\* Python truth value of item.get('_id'): None and 0 are false
Truthy(v) == v # None /\ v # 0

\* line 173
delete_operate_list(documents) ==
  LET kept == SelectSeq(documents, LAMBDA i : Truthy(Get(i, "_id")))
  IN  [k \in 1..Len(kept) |-> [op |-> "DeleteOne", item |-> [_id |-> kept[k]["_id"]]]]

\* delete(coll_name, documents), line 160-186: the collection afterwards
delete(c, documents) ==
  LET ops == delete_operate_list(documents)
  IN  IF ops = <<>> THEN c ELSE bulk_write(c, ops, 1, Len(ops))

\* what delete returns, line 175-186
delete_result(c, documents) ==
  LET ops == delete_operate_list(documents)
  IN  IF ops = <<>> THEN [op |-> "delete", ok |-> TRUE, sent |-> 0]
      ELSE [op |-> "delete", ok |-> ~BulkWriteError(ops), sent |-> Len(ops)]

\* the caller's documents list after write(c, documents)
DocumentsAfter(c, documents) ==
  LET ops == WithObjectIds(c, operate_list(documents))
  IN  [k \in 1..Len(documents) |-> ops[k].item]

\* The documents a caller passes to write: with or without _id, with or without f.
InputDocs ==
  UNION {{d \in [K -> 0..(MaxId + 1)] :
            /\ "_id" \in K => d["_id"] \in 0..MaxId
            /\ "f" \in K => d["f"] \in {1, 2}} : K \in SUBSET {"_id", "f"}}

\* ------------------------------------------------------------- the consumer
\* What the code iterating the generator does with the pages yielded in one
\* step: copy_collection writes each to the destination (line 278-279).
RECURSIVE Consume(_, _)
Consume(d, out) ==
  IF consumer # "copy" \/ out = <<>> THEN d
  ELSE Consume(write(d, out[1]), Tail(out))

\* A faulty variant of Call: the early return of line 208-210 left out.
CallNoEarlyReturn ==
  /\ pc = "init"
  /\ total_cnt' = get_count(coll, filter)
  /\ start_ids' = {i \in Ids(coll) : Matches(coll[i], filter)}
  /\ exact_cnt' = (total_cnt' = Cardinality(start_ids'))
  /\ pc' = "loop"
  /\ return_cnt' = ResolveReturnCnt(arg_cnt, total_cnt')
  /\ cache_size' = InitialCacheSize(return_cnt', page_size)
  /\ UNCHANGED <<coll, dest, otherVars, filter, arg_cnt, page_size, log_switch,
                 fetch_cnt, item_list, filters, page_id, cursor, pages>>

\* getter called: get_count and the early return, line 206-216
Call ==
  /\ pc = "init"
  /\ total_cnt' = get_count(coll, filter)
  /\ start_ids' = {i \in Ids(coll) : Matches(coll[i], filter)}
  /\ exact_cnt' = (total_cnt' = Cardinality(start_ids'))
  /\ IF total_cnt' = 0
     THEN /\ pc' = "done"
          /\ UNCHANGED <<return_cnt, cache_size>>
     ELSE /\ pc' = "loop"
          /\ return_cnt' = ResolveReturnCnt(arg_cnt, total_cnt')
          /\ cache_size' = InitialCacheSize(return_cnt', page_size)
  /\ UNCHANGED <<coll, dest, otherVars, filter, arg_cnt, page_size, log_switch,
                 fetch_cnt, item_list, filters, page_id, cursor, pages>>

\* top of the while loop: line 220-224
OpenCursor ==
  /\ pc = "loop"
  /\ cache_size' = LoopCacheSize(fetch_cnt, page_size, return_cnt, cache_size)
  /\ cursor' = [after |-> None, left |-> cache_size']
  /\ pc' = "cursor"
  /\ UNCHANGED <<coll, dest, otherVars, filter, arg_cnt, page_size, log_switch,
                 total_cnt, return_cnt, fetch_cnt, item_list, filters, page_id,
                 pages, start_ids, exact_cnt>>

\* async for item in cursor: one batch of at most page_size documents
\* (batch_size(page_size)), line 226-233
FetchBatch ==
  /\ pc = "cursor"
  /\ LET rest == FindSorted(coll, filters, cursor.after)
         want == IF Limited(cache_size) THEN Min(page_size, cursor.left) ELSE page_size
         n == Min(want, Len(rest))
         batch == SubSeq(rest, 1, n)
         st == ConsumeItems([items |-> item_list, fetched |-> fetch_cnt,
                             pid |-> page_id, out |-> <<>>], batch, 1, n, page_size)
         left == IF Limited(cache_size) THEN cursor.left - n ELSE cursor.left
         exhausted == n < want \/ (Limited(cache_size) /\ left = 0)
     IN  /\ item_list' = st.items
         /\ fetch_cnt' = st.fetched
         /\ page_id' = st.pid
         /\ pages' = pages \o st.out
         /\ dest' = Consume(dest, st.out)
         /\ cursor' = [after |-> IF n = 0 THEN cursor.after ELSE batch[n]["_id"],
                       left |-> left]
         /\ pc' = IF exhausted THEN "after" ELSE "cursor"
  /\ UNCHANGED <<coll, otherVars, filter, arg_cnt, page_size, log_switch, total_cnt,
                 return_cnt, filters, cache_size, start_ids, exact_cnt>>

\* after the cursor is exhausted: line 234-243
EndCursor ==
  /\ pc = "after"
  /\ LET out == IF item_list # <<>> THEN <<item_list>> ELSE <<>>
     IN  /\ pages' = pages \o out
         /\ dest' = Consume(dest, out)
  /\ IF log_switch /\ page_id = Unbound
     THEN pc' = "error" /\ UNCHANGED filters                  \* line 237
     ELSE IF fetch_cnt >= return_cnt
     THEN pc' = "done" /\ UNCHANGED filters                   \* line 239-240
     ELSE IF page_id = Unbound
     THEN pc' = "error" /\ UNCHANGED filters                  \* line 243
     ELSE pc' = "loop" /\ filters' = [gt |-> page_id, flt |-> filter]
  /\ UNCHANGED <<coll, otherVars, filter, arg_cnt, page_size, log_switch, total_cnt,
                 return_cnt, fetch_cnt, item_list, cache_size, page_id, cursor,
                 start_ids, exact_cnt>>

\* a caller writes a documents list
WriteCall ==
  /\ w_calls = 0
  /\ \E n \in 0..MaxBatch : \E D \in [1..n -> InputDocs] :
       /\ dest' = write(dest, D)
       /\ w_docs' = DocumentsAfter(dest, D)
       /\ w_result' = write_result(dest, D)
  /\ w_calls' = 1
  /\ w_after' = dest'
  /\ UNCHANGED <<coll, churn, low_insert, consumer, dest0, refused, redisVars, getterVars>>

\* the caller writes the same documents list again
WriteAgain ==
  /\ w_calls = 1
  /\ dest' = write(dest, w_docs)
  /\ w_docs' = DocumentsAfter(dest, w_docs)
  /\ w_result' = write_result(dest, w_docs)
  /\ w_calls' = 2
  /\ UNCHANGED <<coll, churn, low_insert, consumer, dest0, refused, w_after, redisVars, getterVars>>

\* a caller deletes a documents list
DeleteCall ==
  /\ w_calls = 0
  /\ \E n \in 0..MaxBatch : \E D \in [1..n -> InputDocs] :
       /\ dest' = delete(dest, D)
       /\ w_docs' = D
       /\ w_result' = delete_result(dest, D)
  /\ w_calls' = 1
  /\ w_after' = dest'
  /\ UNCHANGED <<coll, churn, low_insert, consumer, dest0, refused, redisVars, getterVars>>

\* the caller deletes the documents list it has just written
DeleteWritten ==
  /\ w_calls = 1
  /\ w_result.op = "write"
  /\ dest' = delete(dest, w_docs)
  /\ w_result' = delete_result(dest, w_docs)
  /\ w_calls' = 2
  /\ UNCHANGED <<coll, churn, low_insert, consumer, dest0, refused, w_docs, w_after,
                 redisVars, getterVars>>

\* ---------------------------------------------------------- AsyncRedisDB
Members == 1..MaxMember
Clients == {1, 2}

\* Members are ordered by score, and by name among equal scores.
Before(z, a, b) == z[a] < z[b] \/ (z[a] = z[b] /\ a < b)

RECURSIVE Ascending(_, _)
Ascending(z, S) ==
  IF S = {} THEN <<>>
  ELSE LET m == CHOOSE a \in S : \A b \in S \ {a} : Before(z, a, b)
       IN  <<m>> \o Ascending(z, S \ {m})

\* A faulty variant of ZRangeByScore: the 'limit 0 num' clause left out.
ZRangeByScoreNoLimit(z, min, max, num) ==
  Ascending(z, {m \in DOMAIN z : min <= z[m] /\ z[m] <= max})

\* A faulty variant of ZRangeByScore: the interval taken as open at max.
ZRangeByScoreOpen(z, min, max, num) ==
  LET hits == Ascending(z, {m \in DOMAIN z : min <= z[m] /\ z[m] < max})
  IN  IF num = EmptyString \/ num < 0 THEN hits
      ELSE SubSeq(hits, 1, Min(num, Len(hits)))

\* redis.call('zrangebyscore', key, min, max, 'withscores' [, 'limit', 0, num]),
\* line 91-95: the members only (the script reads datas[i] for odd i)
ZRangeByScore(z, min, max, num) ==
  LET hits == Ascending(z, {m \in DOMAIN z : min <= z[m] /\ z[m] <= max})
  IN  IF num = EmptyString \/ num < 0 THEN hits
      ELSE SubSeq(hits, 1, Min(num, Len(hits)))

\* redis.call('zincrby', key, increase, member), line 101
ZIncrBy(z, increase, m) ==
  IF m \in DOMAIN z THEN [z EXCEPT ![m] = @ + increase]
  ELSE [a \in DOMAIN z \cup {m} |-> IF a = m THEN increase ELSE z[a]]

\* redis.call('zadd', key, set_score, member), line 73
ZAdd(z, score, m) ==
  [a \in DOMAIN z \cup {m} |-> IF a = m THEN score ELSE z[a]]

\* A faulty variant of ZRem: zrem given the score datas[i+1], which is no member.
ZRemScore(z, m) == z

\* redis.call('zrem', key, member), line 128
ZRem(z, m) == [a \in DOMAIN z \ {m} |-> z[a]]

\* A faulty variant of ScriptMayStart: the commands sent one by one from the
\* client instead of as a script, so calls interleave.
ScriptMayAlwaysStart(c) == TRUE

\* script(keys, args), line 82 and 105: a registered script runs on the server
\* as one unit, so a script starts only when no other script is running.
ScriptMayStart(c) == running = NoClient

\* the script starts: line 83-98
ScriptFetch(c) ==
  /\ r_pc[c] = "idle"
  /\ ScriptMayStart(c)
  /\ running' = c
  /\ r_datas' = [r_datas EXCEPT ![c] =
                   ZRangeByScore(zset, r_args[c].min, r_args[c].max, r_args[c].num)]
  /\ r_items' = [r_items EXCEPT ![c] = <<>>]
  /\ r_before' = [r_before EXCEPT ![c] = zset]
  /\ r_pc' = [r_pc EXCEPT ![c] = "script"]
  /\ UNCHANGED <<zset, r_args, r_after, z_init>>
  /\ UNCHANGED <<coll, dest, churn, low_insert, consumer, dest0, refused, writeVars, getterVars>>

\* one turn of the loop: line 99-102
ScriptIncrease(c) ==
  /\ r_pc[c] = "script"
  /\ r_args[c].op = "increase"
  /\ Len(r_items[c]) < Len(r_datas[c])
  /\ LET m == r_datas[c][Len(r_items[c]) + 1]
     IN  /\ r_items' = [r_items EXCEPT ![c] = Append(@, m)]
         /\ zset' = ZIncrBy(zset, r_args[c].increment, m)
  /\ UNCHANGED <<running, r_pc, r_args, r_datas, r_before, r_after, z_init>>
  /\ UNCHANGED <<coll, dest, churn, low_insert, consumer, dest0, refused, writeVars, getterVars>>

\* zset_set_by_score, one turn of the loop: line 71-74
ScriptSet(c) ==
  /\ r_pc[c] = "script"
  /\ r_args[c].op = "set"
  /\ Len(r_items[c]) < Len(r_datas[c])
  /\ LET m == r_datas[c][Len(r_items[c]) + 1]
     IN  /\ r_items' = [r_items EXCEPT ![c] = Append(@, m)]
         /\ zset' = ZAdd(zset, r_args[c].score, m)
  /\ UNCHANGED <<running, r_pc, r_args, r_datas, r_before, r_after, z_init>>
  /\ UNCHANGED <<coll, dest, churn, low_insert, consumer, dest0, refused, writeVars, getterVars>>

\* zset_del_by_score, one turn of the loop: line 126-129
ScriptDel(c) ==
  /\ r_pc[c] = "script"
  /\ r_args[c].op = "del"
  /\ Len(r_items[c]) < Len(r_datas[c])
  /\ LET m == r_datas[c][Len(r_items[c]) + 1]
     IN  /\ r_items' = [r_items EXCEPT ![c] = Append(@, m)]
         /\ zset' = ZRem(zset, m)
  /\ UNCHANGED <<running, r_pc, r_args, r_datas, r_before, r_after, z_init>>
  /\ UNCHANGED <<coll, dest, churn, low_insert, consumer, dest0, refused, writeVars, getterVars>>

\* return item_list: line 75, 103, 130
ScriptReturn(c) ==
  /\ r_pc[c] = "script"
  /\ Len(r_items[c]) = Len(r_datas[c])
  /\ r_pc' = [r_pc EXCEPT ![c] = "done"]
  /\ r_after' = [r_after EXCEPT ![c] = zset]
  /\ running' = IF running = c THEN NoClient ELSE running
  /\ UNCHANGED <<zset, r_args, r_datas, r_items, r_before, z_init>>
  /\ UNCHANGED <<coll, dest, churn, low_insert, consumer, dest0, refused, writeVars, getterVars>>

\* ------------------------------------------------------------ other clients
Doc(i) == [_id |-> i, f |-> IF i % 4 = 0 THEN 0 ELSE 1]

Max(a, b) == IF a > b THEN a ELSE b

\* The traversal's position: the greatest identity it has asked for or seen.
Position ==
  LET seen == IF item_list = <<>> THEN None ELSE item_list[Len(item_list)]["_id"]
      last == IF pages = <<>> THEN None
              ELSE pages[Len(pages)][Len(pages[Len(pages)])]["_id"]
      cur == IF pc \in {"cursor", "after"} THEN cursor.after ELSE None
  IN  Max(Max(filters.gt, cur), Max(seen, last))

\* another client inserts a document while the traversal runs
InsertDoc ==
  /\ pc \in {"loop", "cursor", "after"}
  /\ churn < MaxChurn
  /\ \E i \in Slots(coll) \ {0} :
       /\ coll[i] = Absent
       /\ coll' = [coll EXCEPT ![i] = Doc(i)]
       /\ low_insert' = (low_insert \/ i <= Position)
  /\ churn' = churn + 1
  /\ UNCHANGED <<dest, consumer, dest0, refused, writeVars, redisVars, getterVars>>

\* another client deletes a document while the traversal runs
DeleteDoc ==
  /\ pc \in {"loop", "cursor", "after"}
  /\ churn < MaxChurn
  /\ \E i \in Ids(coll) : coll' = [coll EXCEPT ![i] = Absent]
  /\ churn' = churn + 1
  /\ UNCHANGED <<dest, low_insert, consumer, dest0, refused, writeVars, redisVars, getterVars>>

\* --------------------------------------------------- getter specification
SourceColl(n) == [i \in 0..n |-> IF i = 0 THEN Absent ELSE Doc(i)]
Filters == {<<>>, [f |-> 1]}
Sizes ==
  (0..MaxSmall) \cup ((CacheFactor - 1)..(CacheFactor + 3)) \cup ((2 * CacheFactor)..MaxDocs)
Targets == {All} \cup (1..(MaxSmall + 2)) \cup ((CacheFactor - 1)..MaxTarget)

InitGetter(c, flt, arg, ps, log) ==
  /\ coll = c
  /\ filter = flt
  /\ arg_cnt = arg
  /\ page_size = ps
  /\ log_switch = log
  /\ pc = "init"
  /\ total_cnt = 0
  /\ return_cnt = 0
  /\ fetch_cnt = 0
  /\ item_list = <<>>
  /\ filters = [gt |-> None, flt |-> flt]
  /\ cache_size = 0
  /\ page_id = Unbound
  /\ cursor = [after |-> None, left |-> 0]
  /\ pages = <<>>
  /\ start_ids = {}
  /\ exact_cnt = FALSE
  /\ churn = 0
  /\ low_insert = FALSE
  /\ w_docs = <<>>
  /\ w_calls = 0
  /\ w_after = EmptyColl(0)
  /\ w_result = [op |-> "none", ok |-> TRUE, sent |-> 0]

InitRedis(z, args) ==
  /\ zset = z
  /\ z_init = z
  /\ running = NoClient
  /\ r_args = args
  /\ r_pc = [c \in Clients |-> "idle"]
  /\ r_datas = [c \in Clients |-> <<>>]
  /\ r_items = [c \in Clients |-> <<>>]
  /\ r_before = [c \in Clients |-> z]
  /\ r_after = [c \in Clients |-> z]

NoArgs ==
  [c \in Clients |-> [op |-> "none", min |-> 0, max |-> 0, increment |-> 0, num |-> EmptyString]]
RedisUnused == InitRedis(<<>>, NoArgs)
NoneRefused == refused = {}

Init ==
  /\ \E n \in Sizes, flt \in Filters, arg \in Targets,
        ps \in 1..MaxPage, log \in BOOLEAN :
       InitGetter(SourceColl(n), flt, arg, ps, log)
  /\ dest = EmptyColl(0)
  /\ dest0 = dest
  /\ consumer = "collect"
  /\ NoneRefused
  /\ RedisUnused

Next == Call \/ OpenCursor \/ FetchBatch \/ EndCursor

Spec == Init /\ [][Next]_vars

\* getter on a small collection that other clients insert into and delete from
SparseColl(S) == [i \in 0..(MaxSmall + 1) |-> IF i \in S THEN Doc(i) ELSE Absent]

InitChurn ==
  /\ \E S \in SUBSET (1..(MaxSmall + 1)), flt \in Filters,
        arg \in {All} \cup (1..(MaxSmall + 2)), ps \in 1..MaxPage, log \in BOOLEAN :
       InitGetter(SparseColl(S), flt, arg, ps, log)
  /\ dest = EmptyColl(0)
  /\ dest0 = dest
  /\ consumer = "collect"
  /\ NoneRefused
  /\ RedisUnused

NextChurn ==
  \/ Len(pages) < MaxYield /\ Call
  \/ Len(pages) < MaxYield /\ OpenCursor
  \/ Len(pages) < MaxYield /\ FetchBatch
  \/ Len(pages) < MaxYield /\ EndCursor
  \/ InsertDoc
  \/ DeleteDoc

SpecChurn == InitChurn /\ [][NextChurn]_vars

\* The caller keeps iterating (async for), so the generator's next step is
\* always taken eventually; other clients need not act.
GetterStep ==
  Len(pages) < MaxYield /\ (Call \/ OpenCursor \/ FetchBatch \/ EndCursor)

SpecChurnFair == InitChurn /\ [][NextChurn]_vars /\ WF_vars(GetterStep)

\* copy_collection(old_name, new_name), line 275-280: getter with its default
\* arguments but page_size=5000, every page written to the destination
CopySources ==
  {SparseColl(S) : S \in SUBSET (1..(MaxSmall + 1))}
    \cup {SourceColl(n) : n \in (CopyPageSize - 1)..(CopyPageSize + 1)}
Leftover(c) == [i \in DOMAIN c |-> IF i = 1 THEN [_id |-> 1, g |-> 1] ELSE Absent]

InitCopy ==
  /\ \E c \in CopySources : InitGetter(c, <<>>, All, CopyPageSize, TRUE)
  /\ dest \in {EmptyColl(Cardinality(DOMAIN coll) - 1), Leftover(coll)}
  /\ dest0 = dest
  /\ consumer = "copy"
  /\ NoneRefused
  /\ RedisUnused

NextCopy == Call \/ OpenCursor \/ FetchBatch \/ EndCursor

SpecCopy == InitCopy /\ [][NextCopy]_vars

\* getter on a small unchanging collection, iterated by a caller with any
\* arguments or by copy_collection with its own
InitSmall ==
  /\ \E S \in SUBSET (1..(MaxSmall + 1)), flt \in Filters,
        arg \in {All} \cup (1..(MaxSmall + 2)), ps \in 1..MaxPage, log \in BOOLEAN :
       \/ InitGetter(SparseColl(S), flt, arg, ps, log) /\ consumer = "collect"
       \/ /\ InitGetter(SparseColl(S), <<>>, All, CopyPageSize, TRUE)
          /\ consumer = "copy"
  /\ dest \in {EmptyColl(Cardinality(DOMAIN coll) - 1), Leftover(coll)}
  /\ dest0 = dest
  /\ NoneRefused
  /\ RedisUnused

NextSmall == Call \/ OpenCursor \/ FetchBatch \/ EndCursor

SpecSmall == InitSmall /\ [][NextSmall]_vars

\* copy_collection into a destination whose server refuses some documents
InitCopyFail ==
  /\ \E c \in CopySources : InitGetter(c, <<>>, All, CopyPageSize, TRUE)
  /\ dest = EmptyColl(Cardinality(DOMAIN coll) - 1)
  /\ dest0 = dest
  /\ consumer = "copy"
  /\ refused \in SUBSET (0..MaxId)
  /\ RedisUnused

NextCopyFail == Call \/ OpenCursor \/ FetchBatch \/ EndCursor

SpecCopyFail == InitCopyFail /\ [][NextCopyFail]_vars

\* write on a collection that holds some documents already
StoredDocs(i) == {Absent, [_id |-> i, f |-> 1], [_id |-> i, f |-> 2, g |-> 1]}
WriteColls ==
  LET stored == {g \in [0..MaxId -> UNION {StoredDocs(i) : i \in 0..MaxId}] :
                   \A i \in 0..MaxId : g[i] \in StoredDocs(i)}
  IN  {[i \in 0..(MaxId + 2 * MaxBatch) |-> IF i <= MaxId THEN g[i] ELSE Absent] :
         g \in stored}

InitWrite ==
  /\ InitGetter(EmptyColl(0), <<>>, All, 1, TRUE)
  /\ dest \in WriteColls
  /\ dest0 = dest
  /\ consumer = "collect"
  /\ NoneRefused
  /\ RedisUnused

NextWrite == WriteCall \/ WriteAgain

SpecWrite == InitWrite /\ [][NextWrite]_vars

\* delete on a collection that holds some documents already
NextDelete == DeleteCall

SpecDelete == InitWrite /\ [][NextDelete]_vars

\* write, then delete of the same documents list
NextWriteDelete == WriteCall \/ DeleteWritten

SpecWriteDelete == InitWrite /\ [][NextWriteDelete]_vars

\* write or delete on a collection whose server refuses some operations
InitFail ==
  /\ InitGetter(EmptyColl(0), <<>>, All, 1, TRUE)
  /\ dest \in WriteColls
  /\ dest0 = dest
  /\ consumer = "collect"
  /\ refused \in SUBSET (0..MaxId)
  /\ RedisUnused

NextFail == WriteCall \/ DeleteCall

SpecFail == InitFail /\ [][NextFail]_vars

\* two clients call zset_increase_by_score on the same key
Deltas == {-1, 2}
IncreaseArgs ==
  {a \in [op : {"increase"}, min : 1..MaxScore, max : 1..MaxScore, increment : Deltas,
           num : {EmptyString}] :
     a.min <= a.max}

InitIncrease ==
  /\ InitGetter(EmptyColl(0), <<>>, All, 1, TRUE)
  /\ dest = EmptyColl(0)
  /\ dest0 = dest
  /\ consumer = "collect"
  /\ NoneRefused
  /\ \E z \in [Members -> 1..MaxScore], args \in [Clients -> IncreaseArgs] : InitRedis(z, args)

NextIncrease == \E c \in Clients : ScriptFetch(c) \/ ScriptIncrease(c) \/ ScriptReturn(c)

SpecIncrease == InitIncrease /\ [][NextIncrease]_vars

\* one client calls zset_set_by_score or zset_del_by_score, with or without num
Limits == {EmptyString} \cup (0..MaxMember)
SetArgs ==
  {a \in [op : {"set"}, min : 1..MaxScore, max : 1..MaxScore, score : {0, MaxScore},
           num : Limits] : a.min <= a.max}
DelArgs ==
  {a \in [op : {"del"}, min : 1..MaxScore, max : 1..MaxScore, num : Limits] : a.min <= a.max}

InitZset ==
  /\ InitGetter(EmptyColl(0), <<>>, All, 1, TRUE)
  /\ dest = EmptyColl(0)
  /\ dest0 = dest
  /\ consumer = "collect"
  /\ NoneRefused
  /\ \E z \in [Members -> 1..MaxScore], a \in SetArgs \cup DelArgs :
       InitRedis(z, [NoArgs EXCEPT ![1] = a])

NextZset == ScriptFetch(1) \/ ScriptSet(1) \/ ScriptDel(1) \/ ScriptReturn(1)

SpecZset == InitZset /\ [][NextZset]_vars

\* ------------------------------------------------------- claim vocabulary
RECURSIVE Flatten(_)
Flatten(ps) == IF ps = <<>> THEN <<>> ELSE ps[1] \o Flatten(Tail(ps))

Emitted == Flatten(pages)
EmittedIds == {Emitted[k]["_id"] : k \in 1..Len(Emitted)}
TimesEmitted(i) == Cardinality({k \in 1..Len(Emitted) : Emitted[k]["_id"] = i})
\* The generator is finished: by break (line 240), by return (line 210), or by
\* the exception of reading page_id before it is assigned (line 237, 243).
Ended == pc \in {"done", "error"}

\* C1: a full traversal (return_cnt = 'all') of an unchanging collection whose
\* count was accurate emits exactly count(F) documents, every matching identity
\* exactly once; every page but the last has page_size documents and the last
\* has between 1 and page_size.
C1_FullTraversal ==
  (Ended /\ arg_cnt = All /\ exact_cnt /\ churn = 0) =>
     /\ Len(Emitted) = CountDocuments(coll, filter)
     /\ \A i \in Ids(coll) : TimesEmitted(i) = (IF Matches(coll[i], filter) THEN 1 ELSE 0)
     /\ \A k \in 1..Len(pages) :
          IF k < Len(pages) THEN Len(pages[k]) = page_size
          ELSE Len(pages[k]) >= 1 /\ Len(pages[k]) <= page_size

C1_Witness ==
  /\ pc = "done" /\ arg_cnt = All /\ exact_cnt /\ churn = 0
  /\ filters.gt # None
  /\ Len(pages) > CacheFactor
  /\ page_size > 1
  /\ Len(pages[Len(pages)]) < page_size
  /\ Len(Emitted) = CountDocuments(coll, filter)

\* C2: within one traversal the identities of the emitted documents, in emission
\* order, are strictly increasing (so no document is emitted twice), whatever the
\* filter, page size and target, and while other clients insert or delete.
C2_StrictlyIncreasing ==
  (arg_cnt = All /\ exact_cnt) =>
  \A k \in 1..(Len(Emitted) - 1) : Emitted[k]["_id"] < Emitted[k + 1]["_id"]

\* C7: a full traversal never skips a document present at its start: every
\* document matching when the traversal starts and not deleted during it is
\* emitted, also when other clients insert matching documents above the current
\* lower bound.
C7_NoSkip ==
  (pc = "done" /\ arg_cnt = All /\ exact_cnt /\ ~low_insert) =>
     \A i \in start_ids : coll[i] # Absent => i \in EmittedIds

\* C6: after copy_collection on an unchanging source and an initially empty
\* destination, the destination holds exactly the source's documents, identical
\* by identity and by fields.
C6_CopyExact ==
  (consumer = "copy" /\ Ended /\ Ids(dest0) = {} /\ churn = 0) => dest = coll

C6_Witness ==
  /\ consumer = "copy" /\ pc = "done" /\ Ids(dest0) = {} /\ churn = 0
  /\ Len(pages) = 2
  /\ Len(pages[1]) = CopyPageSize
  /\ Len(pages[2]) < CopyPageSize
  /\ dest = coll

\* C8: with an explicit return_cnt N, 0 < N <= number of matching documents, the
\* traversal emits exactly N documents in total.
C8_ExactTarget ==
  (pc = "done" /\ arg_cnt # All /\ arg_cnt > 0 /\ arg_cnt <= Cardinality(start_ids)
      /\ churn = 0) =>
     Len(Emitted) = arg_cnt

\* C9: an explicit return_cnt larger than the number of matching documents is
\* clamped to it: the traversal emits exactly the matching documents, each once.
C9_Clamped ==
  (pc = "done" /\ arg_cnt # All /\ arg_cnt > Cardinality(start_ids) /\ churn = 0) =>
     /\ Len(Emitted) = Cardinality(start_ids)
     /\ EmittedIds = start_ids

\* C5: write is idempotent for documents that carry an identity: the collection
\* after write(D); write(D) equals the collection after one write(D), with the
\* same number of documents.
AllCarryId(D) == \A k \in 1..Len(D) : Get(D[k], "_id") \in 0..MaxId
C5_Idempotent ==
  (w_calls = 2 /\ AllCarryId(w_docs)) =>
     /\ dest = w_after
     /\ Cardinality(Ids(dest)) = Cardinality(Ids(w_after))

C5_Witness ==
  /\ w_calls = 2 /\ AllCarryId(w_docs) /\ Len(w_docs) = MaxBatch
  /\ dest = w_after
  /\ dest # dest0
  /\ \E k \in 1..Len(w_docs) : dest0[w_docs[k]["_id"]] # Absent
  /\ \E k \in 1..Len(w_docs) : dest0[w_docs[k]["_id"]] = Absent

\* the documents of the batch that carry identity x
Carrying(D, x) == {k \in 1..Len(D) : Get(D[k], "_id") = x}

\* C10 as claimed: after a write of a document carrying identity X the stored
\* document X has exactly the fields of the written document (fields it had
\* before and the written document lacks are gone).
C10_ReplaceAllFields ==
  w_calls = 1 =>
     \A k \in 1..Len(w_docs) :
        LET x == Get(w_docs[k], "_id")
        IN  (x \in 0..MaxId /\ Carrying(w_docs, x) = {k}) => dest[x] = w_docs[k]

\* C10 as the code has it: after a write of a document carrying identity X the
\* stored document X has every field of the written document with the written
\* value, and keeps every other field it had before with its old value; if no
\* document X existed, the written document is inserted as it is.
C10_SetFields ==
  w_calls = 1 =>
     \A k \in 1..Len(w_docs) :
        LET x == Get(w_docs[k], "_id")
            d == w_docs[k]
            old == dest0[x]
        IN  (x \in 0..MaxId /\ Carrying(w_docs, x) = {k}) =>
              /\ dest[x] # Absent
              /\ DOMAIN dest[x] = DOMAIN d \cup DOMAIN old
              /\ \A f \in DOMAIN d : dest[x][f] = d[f]
              /\ \A f \in DOMAIN old \ DOMAIN d : dest[x][f] = old[f]

C10_Witness ==
  /\ w_calls = 1
  /\ \E k \in 1..Len(w_docs) :
       LET x == Get(w_docs[k], "_id")
       IN  /\ x \in 0..MaxId /\ Carrying(w_docs, x) = {k}
           /\ dest0[x] # Absent
           /\ "g" \in DOMAIN dest0[x]
           /\ "g" \in DOMAIN dest[x]
           /\ dest[x]["f"] # dest0[x]["f"]
  /\ \E k \in 1..Len(w_docs) :
       LET x == Get(w_docs[k], "_id")
       IN  x \in 0..MaxId /\ Carrying(w_docs, x) = {k} /\ dest0[x] = Absent

\* The script as one function of the sorted set: the set it leaves and the list
\* it returns.
RECURSIVE IncreaseAll(_, _, _)
IncreaseAll(z, increase, ms) ==
  IF ms = <<>> THEN z ELSE IncreaseAll(ZIncrBy(z, increase, ms[1]), increase, Tail(ms))

Serial(z, a) ==
  LET ms == ZRangeByScore(z, a.min, a.max, a.num)
  IN  [z |-> IncreaseAll(z, a.increment, ms), ret |-> ms]

InOrder(first, second) ==
  LET one == Serial(z_init, r_args[first])
      two == Serial(one.z, r_args[second])
  IN  /\ zset = two.z
      /\ r_items[first] = one.ret
      /\ r_items[second] = two.ret

\* C3: two concurrent zset_increase_by_score calls on one key each run as one
\* indivisible step: the final scores and both returned lists are those of the
\* two calls run one after the other in some order, and every member a call
\* returns has that call's delta applied exactly once by it.
C3_Serializable ==
  (\A c \in Clients : r_pc[c] = "done") =>
     /\ InOrder(1, 2) \/ InOrder(2, 1)
     /\ \A c \in Clients : \A k \in 1..Len(r_items[c]) :
          r_after[c][r_items[c][k]] = r_before[c][r_items[c][k]] + r_args[c].increment

C3_Witness ==
  /\ \A c \in Clients : r_pc[c] = "done"
  /\ r_items[1] # <<>> /\ r_items[2] # <<>>
  /\ r_args[1].max < r_args[2].min
  /\ InOrder(1, 2) /\ ~InOrder(2, 1)

\* C4: zset_increase_by_score without a limit returns exactly the members whose
\* score before the call is in [min, max], in ascending score order; afterwards
\* each returned member has its old score plus the delta and every other member
\* keeps its score and membership.
Returned(c) == {r_items[c][k] : k \in 1..Len(r_items[c])}
C4_IncreaseRange ==
  \A c \in Clients :
     (r_pc[c] = "done" /\ r_args[c].num = EmptyString) =>
        /\ Returned(c) = {m \in DOMAIN r_before[c] :
                            r_args[c].min <= r_before[c][m] /\ r_before[c][m] <= r_args[c].max}
        /\ Len(r_items[c]) = Cardinality(Returned(c))
        /\ \A j, k \in 1..Len(r_items[c]) :
             j < k => r_before[c][r_items[c][j]] <= r_before[c][r_items[c][k]]
        /\ DOMAIN r_after[c] = DOMAIN r_before[c]
        /\ \A m \in DOMAIN r_before[c] :
             r_after[c][m] = r_before[c][m] + (IF m \in Returned(c) THEN r_args[c].increment ELSE 0)

\* One call returns two members whose score order is not their name order, the
\* other call returns one member and leaves another untouched.
C4_Witness ==
  \E c, d \in Clients :
     /\ r_pc[c] = "done" /\ r_pc[d] = "done"
     /\ r_args[c].num = EmptyString /\ r_args[d].num = EmptyString
     /\ Len(r_items[c]) = 2
     /\ r_items[c][1] > r_items[c][2]
     /\ r_before[c][r_items[c][1]] < r_before[c][r_items[c][2]]
     /\ \A m \in Returned(c) : r_after[c][m] = r_before[c][m] + r_args[c].increment
     /\ Len(r_items[d]) = 1
     /\ \E m \in DOMAIN r_before[d] \ Returned(d) : r_after[d][m] = r_before[d][m]

\* the identities of the DeleteOne operations delete builds from D (line 173)
DeleteIds(D) == {D[k]["_id"] : k \in {j \in 1..Len(D) : Truthy(Get(D[j], "_id"))}}

FailedPages == {k \in 1..Len(pages) : \E j \in 1..Len(pages[k]) : pages[k][j]["_id"] \in refused}
FirstFailed == CHOOSE k \in FailedPages : \A j \in FailedPages : k <= j

\* C12: when the write of one page fails during copy_collection, the copy stops
\* at that page: no later page is written to the destination and the pages
\* written before stay.  (The claim's progress count is not stated here:
\* copy_collection has no return value at all, line 275-280.)
C12_AbortOnFailure ==
  (consumer = "copy" /\ Ended /\ FailedPages # {}) =>
     /\ \A k \in 1..Len(pages) : \A j \in 1..Len(pages[k]) :
          IF k < FirstFailed THEN dest[pages[k][j]["_id"]] = pages[k][j]
          ELSE k > FirstFailed => dest[pages[k][j]["_id"]] = Absent

\* the identities the input documents of a delete carry
CarriedIds(D) == {Get(D[k], "_id") : k \in 1..Len(D)} \ {None}

\* C13: delete skips input documents without an identity and does not abort:
\* every input document that carries an identity is removed, the call
\* succeeds, documents the input does not name are unchanged, and an input
\* without any identity sends no operation and deletes nothing.
C13_DeleteSkips ==
  (w_calls = 1 /\ w_result.op = "delete" /\ refused = {}) =>
     /\ w_result.ok
     /\ \A x \in CarriedIds(w_docs) : dest[x] = Absent
     /\ \A x \in DOMAIN dest \ CarriedIds(w_docs) : dest[x] = dest0[x]
     /\ CarriedIds(w_docs) = {} => w_result.sent = 0 /\ dest = dest0

\* the members with a score in [min, max] when call c started
InRange(c) ==
  {m \in DOMAIN r_before[c] :
     r_args[c].min <= r_before[c][m] /\ r_before[c][m] <= r_args[c].max}

\* The returned list is a selection of InRange(c): all of it without num, its
\* first num members in ascending score order with num, each member once.
SelectedInOrder(c) ==
  /\ Returned(c) \subseteq InRange(c)
  /\ Len(r_items[c]) = Cardinality(Returned(c))
  /\ Len(r_items[c]) = IF r_args[c].num = EmptyString THEN Cardinality(InRange(c))
                        ELSE Min(r_args[c].num, Cardinality(InRange(c)))
  /\ \A j, k \in 1..Len(r_items[c]) :
       j < k => r_before[c][r_items[c][j]] <= r_before[c][r_items[c][k]]
  /\ \A m \in Returned(c) : \A o \in InRange(c) \ Returned(c) :
       r_before[c][m] <= r_before[c][o]

\* C14: zset_set_by_score returns the members whose score before the call is in
\* [min, max], capped to the first num in ascending score order when num is
\* given; afterwards each returned member has the given score and every other
\* member, also an in-range member beyond the cap, keeps its score.
C14_SetRange ==
  \A c \in Clients :
     (r_pc[c] = "done" /\ r_args[c].op = "set") =>
        /\ SelectedInOrder(c)
        /\ DOMAIN r_after[c] = DOMAIN r_before[c]
        /\ \A m \in DOMAIN r_before[c] :
             r_after[c][m] = IF m \in Returned(c) THEN r_args[c].score ELSE r_before[c][m]

\* a capped call: an in-range member beyond the cap keeps its score
C14_Witness ==
  \E c \in Clients :
     /\ r_pc[c] = "done" /\ r_args[c].op = "set"
     /\ r_args[c].num = 1
     /\ Len(r_items[c]) = 1
     /\ \E o \in InRange(c) \ Returned(c) :
          /\ r_after[c][o] = r_before[c][o]
          /\ o < r_items[c][1]
          /\ r_before[c][o] # r_args[c].score
     /\ r_after[c][r_items[c][1]] = r_args[c].score
     /\ r_before[c][r_items[c][1]] # r_args[c].score

\* C15: zset_del_by_score removes exactly the members it returns: the members
\* with a score in [min, max] before the call, the first num of them in
\* ascending score order when num is given; afterwards none of them is in the
\* set, the set is smaller by the length of the returned list, every other
\* member is unchanged, and without num no member in [min, max] remains.
C15_DelRange ==
  \A c \in Clients :
     (r_pc[c] = "done" /\ r_args[c].op = "del") =>
        /\ SelectedInOrder(c)
        /\ DOMAIN r_after[c] = DOMAIN r_before[c] \ Returned(c)
        /\ Cardinality(DOMAIN r_after[c]) = Cardinality(DOMAIN r_before[c]) - Len(r_items[c])
        /\ \A m \in DOMAIN r_after[c] : r_after[c][m] = r_before[c][m]
        /\ r_args[c].num = EmptyString =>
             ~\E m \in DOMAIN r_after[c] :
                r_args[c].min <= r_after[c][m] /\ r_after[c][m] <= r_args[c].max

\* a capped call that removes one of two in-range members
C15_Witness ==
  \E c \in Clients :
     /\ r_pc[c] = "done" /\ r_args[c].op = "del"
     /\ r_args[c].num = 1
     /\ Len(r_items[c]) = 1
     /\ r_items[c][1] \notin DOMAIN r_after[c]
     /\ \E o \in InRange(c) : o \in DOMAIN r_after[c] /\ o < r_items[c][1]

\* no find was issued: the cursor is as it was when getter was called
NoFind == cursor = [after |-> None, left |-> 0]

\* C16: when the count for the filter is zero getter yields no page and ends
\* normally, without an error and without a find; so copy_collection from such
\* a source never calls write and leaves the destination as it was.
C16_ZeroCount ==
  (pc # "init" /\ total_cnt = 0) =>
     /\ pc = "done"
     /\ pages = <<>>
     /\ NoFind
     /\ dest = dest0

\* a collection that holds documents, none matching the filter
C16_Witness ==
  /\ pc = "done" /\ total_cnt = 0
  /\ Ids(coll) # {}
  /\ filter # <<>>
  /\ pages = <<>>

\* C17: every traversal that is consumed to the end terminates after finitely
\* many fetches, also when the count that sized it differs from what the
\* fetches return (here: matching documents deleted by another client after
\* the count was taken).  A traversal that has yielded MaxYield pages is not
\* followed further and counts as not refuting the claim.
C17_Terminates == <>(Ended \/ Len(pages) >= MaxYield)

\* C18: every find after the first carries the lower bound _id > L, L the
\* identity of the last document emitted so far, whether in a full or in a
\* partial page, and the page buffer is empty when that find starts.  (Stated
\* for full traversals, where the target is the count itself.)
C18_LowerBound ==
  (pc = "loop" /\ filters.gt # None /\ arg_cnt = All) =>
     /\ filters.gt = Emitted[Len(Emitted)]["_id"]
     /\ item_list = <<>>

\* C19: with its default arguments (return_cnt 'all', log_switch True) and any
\* page size, a traversal of a non-empty matching population, also one smaller
\* than the page size, ends by exhaustion and not by an error; so
\* copy_collection returns normally for every non-empty source.
C19_NormalEnd ==
  (arg_cnt = All /\ log_switch) => pc # "error"

\* C20: at every point of a traversal the page buffer holds at most page_size
\* documents and every emitted page has between 1 and page_size documents,
\* whatever the counts and the fetch results are.
C20_BufferBound ==
  /\ Len(item_list) <= page_size
  /\ \A k \in 1..Len(pages) : 1 <= Len(pages[k]) /\ Len(pages[k]) <= page_size

\* a buffer kept after a partial page and filled up to a page by a later find
C20_Witness ==
  /\ churn > 0
  /\ page_size > 1
  /\ \E k \in 2..Len(pages) :
       /\ Len(pages[k]) = page_size
       /\ Len(pages[k - 1]) < page_size
       /\ pages[k][1] = pages[k - 1][1]

\* C21: write and delete agree on which documents carry an identity: for every
\* identity X, also one that is false as a Python truth value (0, '', False),
\* and a collection that holds no document X, write([d]) with d._id = X
\* followed by delete([d]) leaves the collection as it was before the write.
C21_WriteThenDelete ==
  (/\ w_calls = 2 /\ w_result.op = "delete"
   /\ Len(w_docs) = 1
   /\ w_docs[1]["_id"] \in 0..MaxId
   /\ dest0[w_docs[1]["_id"]] = Absent) =>
     dest = dest0

=============================================================================
